---- MODULE Spec2Model ----
(***************************************************************************)
(* State machine of sharkiq.shark_auth.SharkAuthClient: the credential     *)
(* fields, the clock read by datetime.now(), the aiohttp session, and one  *)
(* action per public method.  The record `op` holds what the last call     *)
(* was given (remote responses) and what it returned or raised.            *)
(***************************************************************************)
EXTENDS Integers, Sequences, FiniteSets, TLC

VARIABLES access_token, refresh_token, auth_expiration, is_authed,
          websession, now, op

vars == <<access_token, refresh_token, auth_expiration, is_authed,
          websession, now, op>>

----------------------------------------------------------------------------
(* Values *)

\* Python None, as the value of a token field or of a JSON null
None == "None"

\* a key that a JSON object does not have
Missing == "Missing"

\* self._auth_expiration = None
NoExpiration == -1

\* timedelta(seconds=600) in token_expiring_soon
SkewWindow == 600

\* login_result.get("expires_in", 3600)
DefaultExpiresIn == 3600

\* the clock stops advancing here
MaxNow == 6000

\* how far datetime.now() advances between two calls: the steps land on the
\* two edges of the skew window of a credential with the default lifetime
ClockSteps == {DefaultExpiresIn - SkewWindow, DefaultExpiresIn}

AccessTokens == {"T1", "T2"}
RefreshTokens == {"R1", "R2"}

\* exception classes, by name
OK == "ok"
NotAuthedError == "SharkIqNotAuthedError"
AuthExpiringError == "SharkIqAuthExpiringError"
AuthError == "SharkIqAuthError"
TypeError == "TypeError"
JSONError == "JSONDecodeError"
TransportError == "ConnectionError"

Cred == [access_token |-> access_token, refresh_token |-> refresh_token,
         auth_expiration |-> auth_expiration, is_authed |-> is_authed]

\* a JSON response body as the client reads it.  json: the body parses;
\* exp_kind: "missing" (no expires_in key), "invalid" (null or not a number),
\* "seconds" (expires_in is the number of seconds)
Body(json, tok, atok, rtok, kind, secs) ==
    [json |-> json, token |-> tok, access_token |-> atok, refresh_token |-> rtok,
     exp_kind |-> kind, expires_in |-> secs]

NoBody == Body(FALSE, Missing, Missing, Missing, "missing", 0)

\* a headers dict is a function from header names to values
NoHeaders == [k \in {} |-> <<>>]

IdleOp == [name |-> "idle", strict |-> FALSE, result |-> OK, msg |-> "", cause |-> "",
           status |-> 0, body |-> NoBody, flow |-> <<>>, sent |-> <<>>,
           was_authed |-> FALSE,
           headers |-> NoHeaders, caller_headers |-> NoHeaders, response |-> 0,
           kwargs |-> [given |-> FALSE, headers |-> NoHeaders], before |-> "",
           devices |-> "none", answers |-> <<>>]

----------------------------------------------------------------------------
(* Session Guard: auth_expiration, token_expired, token_expiring_soon,     *)
(* check_auth                                                              *)

\* the auth_expiration property: [raises, value]
auth_expiration_prop(c) ==
    IF ~c.is_authed THEN [raises |-> FALSE, value |-> NoExpiration]
    ELSE IF c.auth_expiration = NoExpiration THEN [raises |-> TRUE, value |-> NoExpiration]
    ELSE [raises |-> FALSE, value |-> c.auth_expiration]

\* token_expired with the comparison turned round
token_expired_flipped(c, t) ==
    IF auth_expiration_prop(c).value = NoExpiration THEN TRUE
    ELSE t < auth_expiration_prop(c).value

token_expired(c, t) ==
    IF auth_expiration_prop(c).value = NoExpiration THEN TRUE
    ELSE t > auth_expiration_prop(c).value

\* token_expiring_soon without the skew window
token_expiring_soon_no_skew(c, t) ==
    IF auth_expiration_prop(c).value = NoExpiration THEN TRUE
    ELSE t > auth_expiration_prop(c).value

\* token_expiring_soon that counts the edge of the skew window as soon
token_expiring_soon_inclusive(c, t) ==
    IF auth_expiration_prop(c).value = NoExpiration THEN TRUE
    ELSE t >= auth_expiration_prop(c).value - SkewWindow

token_expiring_soon(c, t) ==
    IF auth_expiration_prop(c).value = NoExpiration THEN TRUE
    ELSE t > auth_expiration_prop(c).value - SkewWindow

\* `not self._access_token`
Falsy(tok) == tok = None \/ tok = ""

\* check_auth that raises without touching the flag
check_auth_keeps_flag(c, t, raise_expiring_soon) ==
    IF Falsy(c.access_token) \/ ~c.is_authed
    THEN [result |-> NotAuthedError, msg |-> "", cred |-> c]
    ELSE IF auth_expiration_prop(c).raises
    THEN [result |-> NotAuthedError, msg |-> "Invalid state. Please reauthorize.", cred |-> c]
    ELSE IF token_expired(c, t)
    THEN [result |-> NotAuthedError, msg |-> "", cred |-> c]
    ELSE IF raise_expiring_soon /\ token_expiring_soon(c, t)
    THEN [result |-> AuthExpiringError, msg |-> "", cred |-> c]
    ELSE [result |-> OK, msg |-> "", cred |-> c]

\* check_auth that clears the credential when it raises SharkIqNotAuthedError
check_auth_clears(c, t, raise_expiring_soon) ==
    IF \/ Falsy(c.access_token) \/ ~c.is_authed
       \/ auth_expiration_prop(c).raises
       \/ token_expired(c, t)
    THEN [result |-> NotAuthedError, msg |-> "",
          cred |-> [access_token |-> None, refresh_token |-> None,
                    auth_expiration |-> NoExpiration, is_authed |-> FALSE]]
    ELSE IF raise_expiring_soon /\ token_expiring_soon(c, t)
    THEN [result |-> AuthExpiringError, msg |-> "", cred |-> c]
    ELSE [result |-> OK, msg |-> "", cred |-> c]

\* check_auth(raise_expiring_soon): the exception raised (or OK) and the
\* credential afterwards.  The or-chain short-circuits, so the property
\* auth_expiration raises only with a token and the flag set, and then the
\* assignment of line 189 is not reached.
check_auth(c, t, raise_expiring_soon) ==
    IF Falsy(c.access_token) \/ ~c.is_authed
    THEN [result |-> NotAuthedError, msg |-> "", cred |-> [c EXCEPT !.is_authed = FALSE]]
    ELSE IF auth_expiration_prop(c).raises
    THEN [result |-> NotAuthedError, msg |-> "Invalid state. Please reauthorize.", cred |-> c]
    ELSE IF token_expired(c, t)
    THEN [result |-> NotAuthedError, msg |-> "", cred |-> [c EXCEPT !.is_authed = FALSE]]
    ELSE IF raise_expiring_soon /\ token_expiring_soon(c, t)
    THEN [result |-> AuthExpiringError, msg |-> "", cred |-> c]
    ELSE [result |-> OK, msg |-> "", cred |-> c]

\* _clear_auth that keeps the refresh token
_clear_auth_keeps_refresh(c) ==
    [access_token |-> None, refresh_token |-> c.refresh_token,
     auth_expiration |-> NoExpiration, is_authed |-> FALSE]

_clear_auth(c) ==
    [access_token |-> None, refresh_token |-> None,
     auth_expiration |-> NoExpiration, is_authed |-> FALSE]

----------------------------------------------------------------------------
(* Authenticator: _set_credentials                                         *)

\* _set_credentials that ignores expires_in and always uses the default
_set_credentials_default_expiry(c, t, status_code, login_result) ==
    IF status_code = 404
    THEN [result |-> AuthError, msg |-> "Authentication endpoint not found", cred |-> c]
    ELSE IF status_code = 401
    THEN [result |-> AuthError, msg |-> "Authentication failed. Status", cred |-> c]
    ELSE IF status_code # 200
    THEN [result |-> AuthError, msg |-> "Unexpected authentication response", cred |-> c]
    ELSE IF login_result.token = Missing
    THEN [result |-> AuthError, msg |-> "Missing expected field", cred |-> c]
    ELSE [result |-> OK, msg |-> "",
          cred |-> [access_token |-> login_result.token,
                    refresh_token |-> IF login_result.refresh_token = Missing THEN None
                                      ELSE login_result.refresh_token,
                    auth_expiration |-> t + DefaultExpiresIn,
                    is_authed |-> TRUE]]

\* _set_credentials that sets the flag before it computes the expiration
_set_credentials_flag_first(c, t, status_code, login_result) ==
    IF status_code = 404
    THEN [result |-> AuthError, msg |-> "Authentication endpoint not found", cred |-> c]
    ELSE IF status_code = 401
    THEN [result |-> AuthError, msg |-> "Authentication failed. Status", cred |-> c]
    ELSE IF status_code # 200
    THEN [result |-> AuthError, msg |-> "Unexpected authentication response", cred |-> c]
    ELSE IF login_result.token = Missing
    THEN [result |-> AuthError, msg |-> "Missing expected field", cred |-> c]
    ELSE IF login_result.exp_kind = "invalid"
    THEN [result |-> TypeError, msg |-> "",
          cred |-> [c EXCEPT !.access_token = login_result.token,
                             !.refresh_token = (IF login_result.refresh_token = Missing THEN None
                                               ELSE login_result.refresh_token),
                             !.is_authed = TRUE]]
    ELSE [result |-> OK, msg |-> "",
          cred |-> [access_token |-> login_result.token,
                    refresh_token |-> (IF login_result.refresh_token = Missing THEN None
                                               ELSE login_result.refresh_token),
                    auth_expiration |-> t + (IF login_result.exp_kind = "missing"
                                             THEN DefaultExpiresIn
                                             ELSE login_result.expires_in),
                    is_authed |-> TRUE]]

\* _set_credentials that keeps the stored refresh token when the answer
\* has none
_set_credentials_keeps_refresh(c, t, status_code, login_result) ==
    IF status_code = 404
    THEN [result |-> AuthError, msg |-> "Authentication endpoint not found", cred |-> c]
    ELSE IF status_code = 401
    THEN [result |-> AuthError, msg |-> "Authentication failed. Status", cred |-> c]
    ELSE IF status_code # 200
    THEN [result |-> AuthError, msg |-> "Unexpected authentication response", cred |-> c]
    ELSE IF login_result.token = Missing
    THEN [result |-> AuthError, msg |-> "Missing expected field", cred |-> c]
    ELSE LET rtok == IF login_result.refresh_token = Missing THEN c.refresh_token
                     ELSE login_result.refresh_token
             c2 == [c EXCEPT !.access_token = login_result.token,
                             !.refresh_token = rtok]
             expires_in == IF login_result.exp_kind = "missing" THEN DefaultExpiresIn
                           ELSE login_result.expires_in
         IN IF login_result.exp_kind = "invalid"
            THEN [result |-> TypeError, msg |-> "", cred |-> c2]
            ELSE [result |-> OK, msg |-> "",
                  cred |-> [c2 EXCEPT !.auth_expiration = t + expires_in,
                                      !.is_authed = TRUE]]

\* _set_credentials(status_code, login_result) at time t: the exception
\* raised (or OK) and the credential afterwards.  The assignments of lines
\* 82-89 run in order, so an exception in line 82 or 87 leaves the earlier
\* assignments in place.
_set_credentials(c, t, status_code, login_result) ==
    IF status_code = 404
    THEN [result |-> AuthError, msg |-> "Authentication endpoint not found", cred |-> c]
    ELSE IF status_code = 401
    THEN [result |-> AuthError, msg |-> "Authentication failed. Status", cred |-> c]
    ELSE IF status_code # 200
    THEN [result |-> AuthError, msg |-> "Unexpected authentication response", cred |-> c]
    ELSE IF login_result.token = Missing
    THEN [result |-> AuthError, msg |-> "Missing expected field", cred |-> c]
    ELSE LET rtok == IF login_result.refresh_token = Missing THEN None
                     ELSE login_result.refresh_token
             c2 == [c EXCEPT !.access_token = login_result.token,
                             !.refresh_token = rtok]
             expires_in == IF login_result.exp_kind = "missing" THEN DefaultExpiresIn
                           ELSE login_result.expires_in
         IN IF login_result.exp_kind = "invalid"
            THEN [result |-> TypeError, msg |-> "", cred |-> c2]
            ELSE [result |-> OK, msg |-> "",
                  cred |-> [c2 EXCEPT !.auth_expiration = t + expires_in,
                                      !.is_authed = TRUE]]

----------------------------------------------------------------------------
(* auth0_client.get_shark_token                                            *)

\* len(urls), len(auth_headers)
NumUrls == 4
NumHeaders == 4

\* n requests in a row to the same endpoint, with the bearer token they carry
Req(to, bearer, n) == [to |-> to, bearer |-> bearer, n |-> n]

\* dict.get(key): None for a key that is not there
Get(v) == IF v = Missing THEN None ELSE v

ExchangeOutcome(ex, i) == IF i = ex.hit THEN "json" ELSE ex.before

\* the loop of lines 57-95 from request number i on: requests 2k-1 and 2k are
\* the GET and the POST of the k-th (url, headers) pair.  An exception skips
\* the rest of the pair; a 200 whose body parses ends the loop.  n counts
\* the requests sent.
RECURSIVE exchange_loop(_, _, _)
exchange_loop(ex, i, n) ==
    IF i > 2 * NumUrls * NumHeaders
    THEN [found |-> FALSE, n |-> n]
    ELSE IF ExchangeOutcome(ex, i) = "json" THEN [found |-> TRUE, n |-> n + 1]
    ELSE IF ExchangeOutcome(ex, i) = "error"
    THEN exchange_loop(ex, IF i % 2 = 1 THEN i + 2 ELSE i + 1, n + 1)
    ELSE exchange_loop(ex, i + 1, n + 1)

\* the dict of lines 69-73 and 86-90
exchanged_token(auth0_tokens, data) ==
    Body(TRUE,
         IF data.access_token # Missing THEN data.access_token
         ELSE IF data.token # Missing THEN data.token
         ELSE Get(auth0_tokens.token),
         Missing,
         IF data.refresh_token # Missing THEN data.refresh_token
         ELSE Get(auth0_tokens.refresh_token),
         IF data.exp_kind # "missing" THEN data.exp_kind
         ELSE IF auth0_tokens.exp_kind # "missing" THEN auth0_tokens.exp_kind
         ELSE "seconds",
         IF data.exp_kind # "missing" THEN data.expires_in
         ELSE IF auth0_tokens.exp_kind # "missing" THEN auth0_tokens.expires_in
         ELSE DefaultExpiresIn)

\* the dict of lines 100-104
auth0_token_direct(auth0_tokens) ==
    Body(TRUE, Get(auth0_tokens.token), Missing, Get(auth0_tokens.refresh_token),
         IF auth0_tokens.exp_kind # "missing" THEN auth0_tokens.exp_kind ELSE "seconds",
         IF auth0_tokens.exp_kind # "missing" THEN auth0_tokens.expires_in
         ELSE DefaultExpiresIn)

\* get_shark_token under the remote behaviour f: the exception raised (or
\* OK), the dict returned and the requests sent
get_shark_token(f) ==
    LET first == <<Req("auth0", None, 1)>> IN
    IF f.auth0.status = 0
    THEN [result |-> TransportError, value |-> NoBody, sent |-> first]
    ELSE IF f.auth0.status # 200
    THEN [result |-> "Exception", value |-> NoBody, sent |-> first]
    ELSE IF ~f.auth0.body.json
    THEN [result |-> JSONError, value |-> NoBody, sent |-> first]
    ELSE LET l == exchange_loop(f.exchange, 1, 0) IN
         [result |-> OK,
          value |-> IF l.found THEN exchanged_token(f.auth0.body, f.exchange.data)
                    ELSE auth0_token_direct(f.auth0.body),
          sent |-> Append(first, Req("exchange", None, l.n))]

----------------------------------------------------------------------------
(* sign_in, refresh_auth                                                   *)

\* sign_in under the remote behaviour f: every exception of get_shark_token
\* and of _set_credentials is re-raised as SharkIqAuthError
sign_in(c, t, f) ==
    LET g == get_shark_token(f) IN
    IF g.result # OK
    THEN [result |-> AuthError, msg |-> "Authentication failed:", cause |-> g.result,
          cred |-> c, status |-> f.auth0.status, body |-> NoBody, sent |-> g.sent]
    ELSE LET r == _set_credentials(c, t, 200, g.value) IN
         [result |-> IF r.result = OK THEN OK ELSE AuthError,
          msg |-> IF r.result = OK THEN "" ELSE "Authentication failed:",
          cause |-> IF r.result = OK THEN "" ELSE r.result,
          cred |-> r.cred, status |-> f.auth0.status, body |-> g.value, sent |-> g.sent]

\* the post of a JSON payload to the IDP answered by a, then
\* _set_credentials(resp.status, resp.json()): resp.json() is evaluated
\* before _set_credentials is entered
post_and_set(c, t, a, to) ==
    LET r == IF a.status = 0
             THEN [result |-> TransportError, msg |-> "", cred |-> c]
             ELSE IF ~a.body.json
             THEN [result |-> JSONError, msg |-> "", cred |-> c]
             ELSE _set_credentials(c, t, a.status, a.body)
    IN [result |-> r.result, msg |-> r.msg, cause |-> "", cred |-> r.cred,
        status |-> a.status, body |-> a.body, sent |-> <<Req(to, None, 1)>>]

\* refresh_auth that posts to the refresh endpoint whatever it has stored
refresh_auth_always_posts(c, t, f, a) ==
    post_and_set(c, t, a, "refresh")

\* refresh_auth: f is the remote behaviour if it signs in, a the answer of
\* the refresh endpoint if it posts the refresh token
refresh_auth(c, t, f, a) ==
    IF Falsy(c.refresh_token) THEN sign_in(c, t, f)
    ELSE post_and_set(c, t, a, "refresh")

----------------------------------------------------------------------------
(* Authorized Request Dispatcher: auth_header, _get_headers, request       *)

Bearer(tok) == <<"Bearer", tok>>

\* dict.update
Update(h, u) == [k \in DOMAIN h \cup DOMAIN u |-> IF k \in DOMAIN u THEN u[k] ELSE h[k]]

\* auth_header without the call of check_auth
auth_header_unchecked(c, t) ==
    [result |-> OK, msg |-> "", cred |-> c,
     value |-> [k \in {"Authorization"} |-> Bearer(c.access_token)]]

\* the auth_header property: check_auth() with its default argument
auth_header(c, t) ==
    LET r == check_auth(c, t, TRUE) IN
    [result |-> r.result, msg |-> r.msg, cred |-> r.cred,
     value |-> [k \in {"Authorization"} |-> Bearer(c.access_token)]]

\* _get_headers(fn_kwargs): kw.given says whether fn_kwargs has 'headers',
\* kw.headers is that dict.  `headers` is the caller's dict itself, so
\* headers.update changes it; caller_headers is the caller's dict afterwards.
_get_headers(c, t, kw) ==
    LET h == IF kw.given THEN kw.headers ELSE NoHeaders
        a == auth_header(c, t)
    IN IF a.result # OK
       THEN [result |-> a.result, msg |-> a.msg, cred |-> a.cred,
             headers |-> NoHeaders, caller_headers |-> kw.headers]
       ELSE [result |-> OK, msg |-> "", cred |-> a.cred,
             headers |-> Update(h, a.value),
             caller_headers |-> IF kw.given THEN Update(h, a.value) ELSE kw.headers]

\* request(method, url, **kwargs) answered with status resp (0: transport
\* failure)
request(c, t, kw, resp) ==
    LET g == _get_headers(c, t, kw) IN
    IF g.result # OK
    THEN [result |-> g.result, msg |-> g.msg, cred |-> g.cred, sent |-> <<>>,
          headers |-> NoHeaders, caller_headers |-> g.caller_headers, response |-> 0]
    ELSE [result |-> IF resp = 0 THEN TransportError ELSE OK, msg |-> "", cred |-> g.cred,
          sent |-> <<Req("device", g.headers["Authorization"][2], 1)>>,
          headers |-> g.headers, caller_headers |-> g.caller_headers, response |-> resp]

----------------------------------------------------------------------------
(* Device listing: list_devices, async_list_devices,                       *)
(* get_shark_ninja_vacuum                                                  *)

\* [d["device"] for d in resp.json()] on the outcome r of self.request:
\* a.list says whether the body of the answer a is a JSON list of device
\* records; the status of the answer is not looked at
device_records(r, a) ==
    [result |-> IF r.result # OK THEN r.result ELSE IF a.list THEN OK ELSE JSONError,
     msg |-> r.msg, cred |-> r.cred, sent |-> r.sent,
     devices |-> IF r.result = OK /\ a.list THEN "devices.json" ELSE "none"]

\* the fallback of lines 240-242 and 246-248: the dispatcher's GET of
\* devices.json answered by a, then the list of its device records
devices_json(c, t, a) ==
    device_records(request(c, t, [given |-> FALSE, headers |-> NoHeaders], a.status), a)

\* the requests sent before the outcome r, then those of r
After(sent, r) == [r EXCEPT !.sent = sent \o r.sent]

\* the except clause of lines 243-248 after the fallback f1 of the try block
\* raised: the fallback once more, answered by a
second_fallback(f1, t, a) ==
    After(f1.sent, devices_json(f1.cred, t, a))

\* the else branch of lines 237-242 with the outcome f1 of its fallback
first_fallback(f1, t, a) ==
    IF f1.result = OK THEN f1 ELSE second_fallback(f1, t, a)

\* the functions list_devices(self) and async_list_devices(self) of
\* shark_auth.py, called with a client.  The GET of /robots carries the
\* stored token without a call of check_auth.  A non-200 answer runs the
\* fallback inside the try block, so an exception of that fallback reaches
\* the except clause, which runs the fallback again; an exception of the GET
\* or of resp.json() runs the fallback of the except clause only.
list_devices(c, t, ans) ==
    IF ans.robots.status = 200 /\ ans.robots.list
    THEN [result |-> OK, msg |-> "", cred |-> c,
          sent |-> <<Req("robots", c.access_token, 1)>>, devices |-> "robots"]
    ELSE IF ans.robots.status \in {0, 200}
    THEN After(<<Req("robots", c.access_token, 1)>>, devices_json(c, t, ans.first))
    ELSE After(<<Req("robots", c.access_token, 1)>>,
               first_fallback(devices_json(c, t, ans.first), t, ans.second))

\* get_shark_ninja_vacuum and async_get_shark_ninja_vacuum: list_devices and
\* async_list_devices are functions of the module shark_auth, not attributes
\* of the client, so auth_client.list_devices() raises AttributeError inside
\* the try block; the except clause logs it and the empty list is returned.
get_shark_ninja_vacuum(c) ==
    [result |-> OK, msg |-> "", cred |-> c, sent |-> <<>>, devices |-> "none"]

----------------------------------------------------------------------------
(* testauth.test_shark_ninja_api: the direct sign-in, then the Auth0 flow  *)

\* get_shark_auth_client: a client as __init__ leaves it
get_shark_auth_client ==
    [access_token |-> None, refresh_token |-> None,
     auth_expiration |-> NoExpiration, is_authed |-> FALSE]

\* test_shark_ninja_api that raises the error of the Auth0 flow
test_shark_ninja_api_last_error(t, a, f, null_expiry) ==
    LET p == post_and_set(get_shark_auth_client, t, a, "login")
        g == get_shark_token(f)
    IN [result |-> IF p.result = OK \/ g.result = OK THEN OK ELSE g.result,
        msg |-> "", cred |-> p.cred,
        websession |-> "created",
        sent |-> IF p.result = OK THEN p.sent ELSE p.sent \o g.sent]

\* test_shark_ninja_api at time t: a is the IDP's answer to async_sign_in, f
\* the remote behaviour during get_shark_token, null_expiry says whether an
\* expires_in that is not a number is null.  The second client gets the
\* fields of the token dict assigned one by one; `raise e` raises the error
\* of async_sign_in.  The device listing that follows returns the empty
\* list (get_shark_ninja_vacuum) and changes nothing.
test_shark_ninja_api(t, a, f, null_expiry) ==
    LET p == post_and_set(get_shark_auth_client, t, a, "login")
        g == get_shark_token(f)
        c2 == [get_shark_auth_client EXCEPT !.access_token = Get(g.value.token),
                                            !.refresh_token = Get(g.value.refresh_token),
                                            !.is_authed = TRUE]
        truthy == IF g.value.exp_kind = "invalid" THEN ~null_expiry
                  ELSE g.value.expires_in # 0
    IN IF p.result = OK
       THEN [result |-> OK, msg |-> "", cred |-> get_shark_ninja_vacuum(p.cred).cred,
             websession |-> "created", sent |-> p.sent]
       ELSE IF g.result # OK
       THEN [result |-> p.result, msg |-> p.msg, cred |-> p.cred,
             websession |-> "created", sent |-> p.sent \o g.sent]
       ELSE IF truthy /\ g.value.exp_kind = "invalid"
       THEN [result |-> p.result, msg |-> p.msg, cred |-> c2,
             websession |-> None, sent |-> p.sent \o g.sent]
       ELSE [result |-> OK, msg |-> "",
             cred |-> get_shark_ninja_vacuum(
                          IF truthy
                          THEN [c2 EXCEPT !.auth_expiration = t + g.value.expires_in]
                          ELSE c2).cred,
             websession |-> None, sent |-> p.sent \o g.sent]

----------------------------------------------------------------------------
(* Remote behaviours *)

\* bodies of the IDP's answers to the login and refresh posts
DirectBodies ==
    { Body(TRUE, "T1", Missing, Missing, "missing", 0),
      Body(TRUE, "T1", Missing, "R1", "seconds", 300),
      Body(TRUE, "T2", Missing, Missing, "seconds", 300),
      Body(TRUE, None, Missing, Missing, "seconds", 300),
      Body(TRUE, Missing, Missing, "R1", "seconds", 300),
      Body(TRUE, "T2", Missing, "R1", "invalid", 0),
      NoBody }

\* an answer of the IDP: a status and a body; status 0 stands for a
\* transport failure (no answer)
DirectAnswers ==
    { [status |-> 200, body |-> b] : b \in DirectBodies }
    \cup { [status |-> s, body |-> b] :
             s \in {401, 404, 500},
             b \in {NoBody, Body(TRUE, "T1", Missing, Missing, "missing", 0)} }
    \cup { [status |-> 0, body |-> NoBody] }

\* answers of the Auth0 token endpoint (token: the id_token)
Auth0Answers ==
    { [status |-> 200, body |-> Body(TRUE, "T1", "T2", "R2", "seconds", 300)],
      [status |-> 200, body |-> Body(TRUE, "T1", "T2", Missing, "missing", 0)],
      [status |-> 200, body |-> Body(TRUE, Missing, "T2", "R2", "seconds", 300)],
      [status |-> 200, body |-> NoBody],
      [status |-> 401, body |-> NoBody],
      [status |-> 0, body |-> NoBody] }

\* behaviours of the token-exchange endpoints: every request is answered
\* `before` ("error": transport failure, "non200", "notjson": 200 with a body
\* that does not parse), except request number `hit` (0: none), which is
\* answered 200 with the JSON body `data`
Exchanges ==
    { [before |-> b, hit |-> 0, data |-> NoBody] : b \in {"error", "non200", "notjson"} }
    \cup { [before |-> "non200", hit |-> 1,
            data |-> Body(TRUE, "T2", Missing, Missing, "seconds", 300)],
           [before |-> "notjson", hit |-> 2,
            data |-> Body(TRUE, "T1", "T2", "R1", "missing", 0)],
           [before |-> "non200", hit |-> 2,
            data |-> Body(TRUE, Missing, Missing, Missing, "missing", 0)],
           [before |-> "non200", hit |-> 2 * NumUrls * NumHeaders,
            data |-> Body(TRUE, "T2", Missing, "R1", "invalid", 0)] }

NoExchange == [before |-> "error", hit |-> 0, data |-> NoBody]

NoAnswer == [status |-> 0, body |-> NoBody]

NoFlow == [auth0 |-> NoAnswer, exchange |-> NoExchange]

Auth0Passes(a0) == a0.status = 200 /\ a0.body.json

\* what the remote does during one sign_in
Flows ==
    { [auth0 |-> a0, exchange |-> ex] : a0 \in {a \in Auth0Answers : Auth0Passes(a)},
                                        ex \in Exchanges }
    \cup { [auth0 |-> a0, exchange |-> NoExchange] :
             a0 \in {a \in Auth0Answers : ~Auth0Passes(a)} }

\* the headers keyword of a call of request
Kwargs ==
    { [given |-> FALSE, headers |-> NoHeaders],
      [given |-> TRUE, headers |-> [k \in {"Accept"} |-> <<"json">>]],
      [given |-> TRUE, headers |-> [k \in {"Authorization"} |-> <<"Basic", "old">>]] }

\* statuses of the device service's answers (0: transport failure)
DeviceAnswers == {200, 401, 0}

\* the calls of request: every answer without headers, every headers dict
\* with the answer 200
RequestInputs ==
    { i \in [kw : Kwargs, resp : DeviceAnswers] : ~i.kw.given \/ i.resp = 200 }

\* answers to the GETs of the device listing: a status (0: transport
\* failure) and whether the body is a JSON list of device records
DevListed == [status |-> 200, list |-> TRUE]
DevUnreadable == [status |-> 200, list |-> FALSE]
DevRefused == [status |-> 500, list |-> FALSE]
DevDown == [status |-> 0, list |-> FALSE]

\* what the remote does during one list_devices: the answer of /robots and
\* of the first and second GET of devices.json (DevDown where none is sent)
ListInputs ==
    { [robots |-> DevListed, first |-> DevDown, second |-> DevDown] }
    \cup { [robots |-> r, first |-> a, second |-> DevDown] :
             r \in {DevUnreadable, DevDown}, a \in {DevListed, DevRefused, DevDown} }
    \cup { [robots |-> DevRefused, first |-> DevListed, second |-> DevDown] }
    \cup { [robots |-> DevRefused, first |-> a, second |-> b] :
             a \in {DevRefused, DevDown}, b \in {DevListed, DevRefused, DevDown} }

----------------------------------------------------------------------------
(* Actions *)

\* the state of the Session Guard a call starts in, recorded with the call:
\* what check_auth() would answer
SessionState(c, t) ==
    IF check_auth(c, t, TRUE).result = OK THEN "Valid"
    ELSE IF check_auth(c, t, TRUE).result = AuthExpiringError THEN "ExpiringSoon"
    ELSE IF Falsy(c.access_token) \/ ~c.is_authed THEN "Unauthenticated"
    ELSE "Expired"

SetCred(c) ==
    /\ access_token' = c.access_token
    /\ refresh_token' = c.refresh_token
    /\ auth_expiration' = c.auth_expiration
    /\ is_authed' = c.is_authed

\* ensure_session
ensure_session(ws) == IF ws = None THEN "created" ELSE ws

Init ==
    /\ access_token = None
    /\ refresh_token = None
    /\ auth_expiration = NoExpiration
    /\ is_authed = FALSE
    /\ websession \in {None, "supplied"}
    /\ now = 0
    /\ op = IdleOp

\* datetime.now() advances between calls
Tick ==
    /\ \E d \in ClockSteps : now + d <= MaxNow /\ now' = now + d
    /\ op' = IdleOp
    /\ UNCHANGED <<access_token, refresh_token, auth_expiration, is_authed, websession>>

CheckAuth ==
    \E strict \in BOOLEAN :
        \E r \in {check_auth(Cred, now, strict)} :
            /\ SetCred(r.cred)
            /\ op' = [IdleOp EXCEPT !.name = "check_auth", !.strict = strict,
                                    !.result = r.result, !.msg = r.msg,
                                    !.was_authed = is_authed]
            /\ UNCHANGED <<websession, now>>

SignOut ==
    \E name \in {"sign_out", "async_sign_out"} :
        /\ SetCred(_clear_auth(Cred))
        /\ op' = [IdleOp EXCEPT !.name = name, !.was_authed = is_authed]
        /\ UNCHANGED <<websession, now>>

\* the record of a call of sign_in, async_sign_in or refresh_auth
AuthOp(name, r, f) ==
    [IdleOp EXCEPT !.name = name, !.result = r.result, !.msg = r.msg,
                   !.cause = r.cause, !.status = r.status, !.body = r.body,
                   !.flow = f, !.sent = r.sent]

\* the record of a call of request or async_request
RequestOp(name, r) ==
    [IdleOp EXCEPT !.name = name, !.result = r.result, !.msg = r.msg,
                   !.sent = r.sent, !.headers = r.headers,
                   !.caller_headers = r.caller_headers,
                   !.response = r.response, !.was_authed = is_authed]

\* async_sign_in (the definition of lines 126-141, which replaces the one of
\* lines 102-111 in the class body)
AsyncSignIn ==
    \E a \in DirectAnswers :
        \E r \in {post_and_set(Cred, now, a, "login")} :
            /\ SetCred(r.cred)
            /\ websession' = ensure_session(websession)
            /\ op' = AuthOp("async_sign_in", r, <<>>)
            /\ UNCHANGED now

SignIn ==
    \E f \in Flows :
        \E r \in {sign_in(Cred, now, f)} :
            /\ SetCred(r.cred)
            /\ op' = AuthOp("sign_in", r, f)
            /\ UNCHANGED <<websession, now>>

\* refresh_auth without a refresh token: sign_in
RefreshAuthSignIn ==
    /\ Falsy(refresh_token)
    /\ \E f \in Flows :
        \E r \in {refresh_auth(Cred, now, f, NoAnswer)} :
            /\ SetCred(r.cred)
            /\ op' = [AuthOp("refresh_auth", r, f) EXCEPT
                          !.before = SessionState(Cred, now)]
            /\ UNCHANGED <<websession, now>>

\* refresh_auth with a refresh token: the post to the refresh endpoint
RefreshAuthPost ==
    /\ ~Falsy(refresh_token)
    /\ \E a \in DirectAnswers :
        \E r \in {refresh_auth(Cred, now, NoFlow, a)} :
            /\ SetCred(r.cred)
            /\ op' = [AuthOp("refresh_auth", r, <<>>) EXCEPT
                          !.before = SessionState(Cred, now)]
            /\ UNCHANGED <<websession, now>>

Request ==
    \E i \in RequestInputs :
        \E r \in {request(Cred, now, i.kw, i.resp)} :
            /\ SetCred(r.cred)
            /\ op' = [RequestOp("request", r) EXCEPT !.kwargs = i.kw]
            /\ UNCHANGED <<websession, now>>

\* async_request: ensure_session, then as request
AsyncRequest ==
    \E i \in RequestInputs :
        \E r \in {request(Cred, now, i.kw, i.resp)} :
            /\ SetCred(r.cred)
            /\ websession' = ensure_session(websession)
            /\ op' = [RequestOp("async_request", r) EXCEPT !.kwargs = i.kw]
            /\ UNCHANGED now

Next ==
    \/ Tick
    \/ CheckAuth
    \/ SignOut
    \/ AsyncSignIn
    \/ SignIn
    \/ RefreshAuthSignIn
    \/ RefreshAuthPost
    \/ Request
    \/ AsyncRequest

Spec == Init /\ [][Next]_vars

\* list_devices(client) or async_list_devices(client)
ListDevices ==
    \E name \in {"list_devices", "async_list_devices"}, ans \in ListInputs :
        \E r \in {list_devices(Cred, now, ans)} :
            /\ SetCred(r.cred)
            /\ websession' = IF name = "async_list_devices"
                             THEN ensure_session(websession) ELSE websession
            /\ op' = [IdleOp EXCEPT !.name = name, !.result = r.result, !.msg = r.msg,
                                    !.sent = r.sent, !.devices = r.devices,
                                    !.answers = ans, !.was_authed = is_authed,
                                    !.before = SessionState(Cred, now)]
            /\ UNCHANGED now

GetSharkNinjaVacuum ==
    \E name \in {"get_shark_ninja_vacuum", "async_get_shark_ninja_vacuum"} :
        \E r \in {get_shark_ninja_vacuum(Cred)} :
            /\ SetCred(r.cred)
            /\ op' = [IdleOp EXCEPT !.name = name, !.result = r.result,
                                    !.sent = r.sent, !.devices = r.devices,
                                    !.was_authed = is_authed,
                                    !.before = SessionState(Cred, now)]
            /\ UNCHANGED <<websession, now>>

NextDevices ==
    \/ GetSharkNinjaVacuum
    \/ ListDevices
    \/ Next

\* the client with the device listing
SpecDevices == Init /\ [][NextDevices]_vars

\* test_shark_ninja_api starts with a client of its own, made without a
\* websession; the client it ends with takes its place
TestSharkNinjaApi ==
    \E a \in DirectAnswers, f \in Flows, null_expiry \in BOOLEAN :
        /\ Cred = get_shark_auth_client /\ websession = None
        /\ post_and_set(get_shark_auth_client, now, a, "login").result = OK => f = NoFlow
        /\ null_expiry => /\ post_and_set(get_shark_auth_client, now, a, "login").result # OK
                          /\ get_shark_token(f).result = OK
                          /\ get_shark_token(f).value.exp_kind = "invalid"
        /\ \E r \in {test_shark_ninja_api(now, a, f, null_expiry)} :
            /\ SetCred(r.cred)
            /\ websession' = r.websession
            /\ op' = [IdleOp EXCEPT !.name = "test_shark_ninja_api",
                                    !.result = r.result, !.msg = r.msg,
                                    !.status = a.status, !.body = a.body,
                                    !.flow = f, !.sent = r.sent]
            /\ UNCHANGED now

NextHarness ==
    \/ Next
    \/ TestSharkNinjaApi

\* the client with the sign-in of testauth.py
SpecHarness == Init /\ [][NextHarness]_vars

----------------------------------------------------------------------------
(* Vocabulary of the properties: the states of the Session Guard, read     *)
(* from the credential and the clock                                       *)

TokenPresent == ~Falsy(access_token)

Unauthenticated == ~is_authed \/ ~TokenPresent

Expired ==
    /\ is_authed
    /\ TokenPresent
    /\ (auth_expiration = NoExpiration \/ now > auth_expiration)

PastExpiry ==
    is_authed /\ TokenPresent /\ auth_expiration # NoExpiration /\ auth_expiration < now

ExpiringSoon ==
    /\ is_authed
    /\ TokenPresent
    /\ auth_expiration # NoExpiration
    /\ now < auth_expiration
    /\ auth_expiration < now + SkewWindow

Cleared ==
    /\ access_token = None
    /\ refresh_token = None
    /\ auth_expiration = NoExpiration
    /\ ~is_authed

Requests == {"request", "async_request"}
SignIns == {"sign_in", "async_sign_in"}
SignOuts == {"sign_out", "async_sign_out"}

----------------------------------------------------------------------------
(* Properties *)

\* C1: check_auth on a credential with a token, the flag set and expiresAt
\* in the past raises SharkIqNotAuthedError, strict or not: it never raises
\* SharkIqAuthExpiringError and never passes.
C1_ExpiredIsNotAuthed ==
    [][(op'.name = "check_auth" /\ PastExpiry) => op'.result = NotAuthedError]_vars

C1_Witness ==
    /\ op.name = "check_auth" /\ op.strict /\ op.was_authed
    /\ TokenPresent /\ auth_expiration # NoExpiration /\ auth_expiration < now
    /\ op.result = NotAuthedError

\* C2: with expiresAt strictly between now and now+600s, the strict
\* check_auth raises SharkIqAuthExpiringError and the non-strict one passes;
\* a non-strict check_auth never raises SharkIqAuthExpiringError.
C2_ExpiringSoonOnlyWhenStrict ==
    [][op'.name = "check_auth" =>
         /\ ExpiringSoon =>
              op'.result = (IF op'.strict THEN AuthExpiringError ELSE OK)
         /\ ~op'.strict => op'.result # AuthExpiringError]_vars

C2_Witness ==
    /\ op.name = "check_auth" /\ op.strict /\ ExpiringSoon
    /\ op.result = AuthExpiringError

\* C3: a request made while the session is ExpiringSoon is sent with the
\* header Authorization: Bearer <token> and does not raise
\* SharkIqAuthExpiringError.
C3_RequestPassesWhenExpiringSoon ==
    [][(op'.name \in Requests /\ ExpiringSoon) =>
         /\ op'.result # AuthExpiringError
         /\ op'.sent = <<Req("device", access_token, 1)>>
         /\ "Authorization" \in DOMAIN op'.headers
         /\ op'.headers["Authorization"] = Bearer(access_token)]_vars

\* C4: a request made while the session is Unauthenticated or Expired raises
\* SharkIqNotAuthedError and sends nothing.
C4_NoRequestWithoutAuth ==
    [][(op'.name \in Requests /\ (Unauthenticated \/ Expired)) =>
         (op'.result = NotAuthedError /\ op'.sent = <<>>)]_vars

C4_Witness ==
    /\ op.name \in Requests /\ op.was_authed
    /\ TokenPresent /\ auth_expiration # NoExpiration /\ auth_expiration < now
    /\ op.result = NotAuthedError /\ op.sent = <<>>

\* C5: after a request that the remote service answered with status 401 the
\* session is Unauthenticated.
C5_Remote401Unauthenticates ==
    (op.name \in Requests /\ op.response = 401) => Unauthenticated

\* C6: sign_out leaves the four credential fields cleared, and a sign_out
\* right after a sign_out changes nothing.
C6_SignOutClearsIdempotent ==
    [][op'.name \in SignOuts =>
         /\ Cleared'
         /\ op.name \in SignOuts => Cred' = Cred]_vars

C6_Witness ==
    op.name \in SignOuts /\ op.was_authed /\ Cleared

\* C7: the authenticated flag is set only with an access token present.
C7_AuthedImpliesToken ==
    is_authed => access_token # None

\* C8: a sign-in answered 200 with a null token or without the token field
\* raises the missing-field SharkIqAuthError and does not authenticate.
C8_NullTokenIsMalformed ==
    (/\ op.name \in SignIns /\ op.status = 200 /\ op.body.json
     /\ op.body.token \in {Missing, None})
    => (op.result = AuthError /\ op.msg = "Missing expected field")

\* C9: a sign-in answered 401 raises SharkIqAuthError with an "Authentication
\* failed" message (that of status 401, or the one sign_in wraps around the
\* Auth0 failure), whatever the body.
C9_Status401IsInvalidCredentials ==
    (op.name \in SignIns /\ op.status = 401)
    => /\ op.result = AuthError
       /\ op.msg \in {"Authentication failed. Status", "Authentication failed:"}

\* C10: a sign-in answered 200 whose body carries token T and expires_in E (a
\* number of seconds, 3600 when the key is absent) leaves the flag set, the
\* access token T, the refresh token of the body (None if it has none) and
\* the expiration now + E.
C10_SignInStoresCredential ==
    [][(/\ op'.name \in SignIns /\ op'.status = 200 /\ op'.body.json
        /\ op'.body.token # Missing /\ op'.body.exp_kind # "invalid")
       => /\ op'.result = OK
          /\ is_authed'
          /\ access_token' = op'.body.token
          /\ refresh_token' = Get(op'.body.refresh_token)
          /\ auth_expiration' =
               now + (IF op'.body.exp_kind = "missing" THEN DefaultExpiresIn
                      ELSE op'.body.expires_in)]_vars

C10_Witness ==
    /\ op.name = "async_sign_in" /\ op.status = 200
    /\ op.body.token = "T1" /\ op.body.refresh_token = "R1" /\ op.body.exp_kind = "seconds"
    /\ is_authed /\ access_token = "T1" /\ refresh_token = "R1"
    /\ auth_expiration = now + op.body.expires_in

\* C11: without a stored refresh token, refresh_auth under a remote
\* behaviour leaves the credential sign_in leaves under that behaviour from
\* the same state, raises what sign_in raises, and sends nothing to the
\* refresh endpoint.
C11_RefreshWithoutTokenIsSignIn ==
    [][(op'.name = "refresh_auth" /\ Falsy(refresh_token)) =>
         \E r \in {sign_in(Cred, now, op'.flow)} :
             /\ Cred' = r.cred
             /\ op'.result = r.result /\ op'.msg = r.msg /\ op'.cause = r.cause
             /\ op'.sent = r.sent
             /\ \A i \in DOMAIN op'.sent : op'.sent[i].to # "refresh"]_vars

C11_Witness ==
    /\ op.name = "refresh_auth" /\ op.result = OK
    /\ Len(op.sent) = 2 /\ op.sent[1].to = "auth0"
    /\ is_authed /\ access_token = op.body.token

C13_CallerHeadersUntouched ==
    (op.name \in Requests /\ op.kwargs.given /\ op.sent # <<>>) =>
        /\ op.headers = Update(op.kwargs.headers,
                               [k \in {"Authorization"} |-> Bearer(access_token)])
        /\ op.caller_headers = op.kwargs.headers

\* C14: under a remote failure (no answer, a status other than 200, a body
\* that does not parse) sign_in raises the exception async_sign_in raises
\* under that answer from the same credential, and leaves the credential
\* async_sign_in leaves.
C14_SignInsAgree ==
    [][(op'.name = "sign_in" /\ ~Auth0Passes(op'.flow.auth0)) =>
         \E r \in {post_and_set(Cred, now, op'.flow.auth0, "login")} :
             op'.result = r.result /\ Cred' = r.cred]_vars

\* C15: a call of request or async_request sends at most one request; a
\* call of sign_in or refresh_auth in which a request fails in transport
\* sends nothing after it and raises.
C15_NoRetryAfterTransportFailure ==
    /\ op.name \in Requests =>
         (Len(op.sent) <= 1 /\ \A i \in DOMAIN op.sent : op.sent[i].n = 1)
    /\ (op.name \in {"sign_in", "refresh_auth"} /\ op.sent # <<>>) =>
         /\ op.status = 0 =>
              (op.result # OK /\ Len(op.sent) = 1 /\ op.sent[1].n = 1)
         /\ (/\ op.sent[1].to = "auth0"
             /\ Auth0Passes(op.flow.auth0)
             /\ ExchangeOutcome(op.flow.exchange, 1) = "error") =>
              (op.result # OK /\ op.sent[2].n = 1)

\* the lifetime _set_credentials reads from the body of the last call
C16_Lifetime ==
    IF op.body.exp_kind = "missing" THEN DefaultExpiresIn ELSE op.body.expires_in

\* C16 as claimed: after a refresh_auth that started in Expired or
\* ExpiringSoon and stored a token from a 200, check_auth(strict) passes.
C16_RefreshLeavesValid ==
    (/\ op.name = "refresh_auth" /\ op.result = OK
     /\ op.before \in {"Expired", "ExpiringSoon"}
     /\ TokenPresent) =>
        check_auth(Cred, now, TRUE).result = OK

\* C16 amended: after such a refresh_auth the non-strict check passes, and
\* the strict check passes exactly when the lifetime in the answer
\* (expires_in, 3600 without one) is at least the skew window; with a
\* shorter lifetime it raises SharkIqAuthExpiringError.
C16_RefreshLeavesValidOrExpiringSoon ==
    (/\ op.name = "refresh_auth" /\ op.result = OK
     /\ op.before \in {"Expired", "ExpiringSoon"}
     /\ TokenPresent) =>
        /\ check_auth(Cred, now, FALSE).result = OK
        /\ C16_Lifetime >= SkewWindow => check_auth(Cred, now, TRUE).result = OK
        /\ C16_Lifetime < SkewWindow =>
             check_auth(Cred, now, TRUE).result = AuthExpiringError
        /\ auth_expiration = now + C16_Lifetime

C16_Witness ==
    /\ op.name = "refresh_auth" /\ op.result = OK
    /\ op.before = "Expired" /\ op.sent[1].to = "refresh"
    /\ TokenPresent /\ C16_Lifetime < SkewWindow
    /\ check_auth(Cred, now, TRUE).result = AuthExpiringError

\* C17 as claimed: with exactly the skew window left (now = expiresAt - 600)
\* the strict check raises SharkIqAuthExpiringError, and at now = expiresAt
\* the non-strict check passes.
C17_BoundaryInclusive ==
    [][(/\ op'.name = "check_auth"
        /\ is_authed /\ TokenPresent /\ auth_expiration # NoExpiration) =>
         /\ (now = auth_expiration - SkewWindow /\ op'.strict) =>
              op'.result = AuthExpiringError
         /\ (now = auth_expiration /\ ~op'.strict) => op'.result = OK]_vars

\* C17 amended: with exactly the skew window left the strict check passes;
\* it raises SharkIqAuthExpiringError from then on up to and at
\* now = expiresAt, where the non-strict check still passes.
C17_BoundaryExclusive ==
    [][(/\ op'.name = "check_auth"
        /\ is_authed /\ TokenPresent /\ auth_expiration # NoExpiration) =>
         /\ now = auth_expiration - SkewWindow => op'.result = OK
         /\ (now > auth_expiration - SkewWindow /\ now <= auth_expiration) =>
              op'.result = IF op'.strict THEN AuthExpiringError ELSE OK]_vars

C17_Witness ==
    /\ op.name = "check_auth" /\ op.strict /\ op.was_authed
    /\ is_authed /\ TokenPresent
    /\ now = auth_expiration - SkewWindow
    /\ op.result = OK

\* C18: a check_auth that finds the flag set without a token, or without an
\* expiration, fails and leaves the credential cleared: no token, no refresh
\* token, no expiration, flag unset.
C18_InvariantViolationClears ==
    [][(/\ op'.name = "check_auth"
        /\ is_authed
        /\ (~TokenPresent \/ auth_expiration = NoExpiration)) =>
         (op'.result # OK /\ Cleared')]_vars

\* C19: a sign_in, refresh_auth or request in which a request fails in
\* transport raises an exception that is not SharkIqAuthError; it does not
\* return normally.
C19_TransportFailureSurfaced ==
    /\ (op.name \in {"sign_in", "refresh_auth"} /\ op.sent # <<>>) =>
         /\ op.status = 0 => op.result \notin {AuthError, OK}
         /\ (/\ op.sent[1].to = "auth0"
             /\ Auth0Passes(op.flow.auth0)
             /\ \E i \in 1..(2 * NumUrls * NumHeaders) :
                    /\ ExchangeOutcome(op.flow.exchange, i) = "error"
                    /\ op.flow.exchange.hit \in {0} \cup (i + 1)..(2 * NumUrls * NumHeaders)) =>
              op.result \notin {AuthError, OK}
    /\ (op.name \in Requests /\ op.sent # <<>> /\ op.response = 0) =>
         op.result \notin {AuthError, OK}

\* C20: a device listing sends the GET of /robots first and returns its
\* list on a 200; otherwise it sends the GET of devices.json through the
\* dispatcher at most once and, from a Valid session, returns the list of
\* that answer; get_shark_ninja_vacuum called in a Valid session returns the
\* devices listed.
C20_DeviceListing ==
    /\ op.name \in {"list_devices", "async_list_devices"} =>
         /\ op.sent # <<>> /\ op.sent[1].to = "robots"
         /\ op.answers.robots = DevListed =>
              (op.result = OK /\ op.devices = "robots" /\ Len(op.sent) = 1)
         /\ op.answers.robots # DevListed =>
              /\ Cardinality({i \in DOMAIN op.sent : op.sent[i].to = "device"}) <= 1
              /\ (op.before = "Valid" /\ op.answers.first = DevListed) =>
                   (op.result = OK /\ op.devices = "devices.json")
    /\ (/\ op.name \in {"get_shark_ninja_vacuum", "async_get_shark_ninja_vacuum"}
        /\ op.before = "Valid") =>
         op.devices # "none"

\* C21: a sign_in, async_sign_in or refresh_auth that raises leaves the
\* access token, the refresh token, the expiration and the flag as they were
\* before the call.
C21_FailedSignInChangesNothing ==
    [][(op'.name \in {"sign_in", "async_sign_in", "refresh_auth"} /\ op'.result # OK) =>
         Cred' = Cred]_vars

\* C22: a call that sends a request with a bearer token to the device
\* service or to /robots starts with the flag set, a token stored and the
\* expiration not passed.
C22_BearerOnlyWhenAuthed ==
    [][(\E i \in DOMAIN op'.sent : op'.sent[i].to \in {"robots", "device"}) =>
         (is_authed /\ TokenPresent /\ ~Expired)]_vars

\* C23: a session is made only by a call that needs one and finds none; a
\* session there is, made or supplied, is the one every later call uses; a
\* sign-out closes it.
C23_SessionScoped ==
    [][/\ (websession = None /\ websession' # None) =>
            (/\ op'.name \in {"async_sign_in", "async_request"}
             /\ websession' = "created")
       /\ (websession # None /\ op'.name \notin SignOuts) => websession' = websession
       /\ (websession # None /\ op'.name \in SignOuts) => websession' = "closed"]_vars

\* C24: whenever the flag is set the expiration is set; so a check_auth or
\* request that raises SharkIqNotAuthedError never does it with the message
\* of the auth_expiration property ('Invalid state'), and a check_auth that
\* raises SharkIqNotAuthedError leaves the flag unset.
C24_AuthedImpliesExpiration ==
    /\ is_authed => auth_expiration # NoExpiration
    /\ (op.name \in {"check_auth"} \cup Requests /\ op.result = NotAuthedError) =>
         (op.msg # "Invalid state. Please reauthorize." /\ ~is_authed)

C24_Witness ==
    /\ op.name = "check_auth" /\ op.result = NotAuthedError
    /\ op.was_authed /\ ~is_authed
    /\ TokenPresent /\ auth_expiration # NoExpiration

\* C25: a check_auth or request that raises SharkIqNotAuthedError leaves the
\* flag unset; with the flag unset every check_auth and request raises
\* SharkIqNotAuthedError, wherever the clock stands; and the flag is set
\* again only by a sign_in, async_sign_in or refresh_auth that returns
\* normally.
C25_NotAuthedIsSticky ==
    [][/\ (op'.name \in {"check_auth"} \cup Requests /\ op'.result = NotAuthedError) =>
            ~is_authed'
       /\ (~is_authed /\ op'.name \in {"check_auth"} \cup Requests) =>
            op'.result = NotAuthedError
       /\ (~is_authed /\ is_authed') =>
            (op'.name \in SignIns \cup {"refresh_auth"} /\ op'.result = OK)]_vars

C25_Witness ==
    /\ op.name \in {"check_auth"} \cup Requests /\ op.result = NotAuthedError
    /\ ~op.was_authed /\ ~is_authed
    /\ TokenPresent /\ auth_expiration # NoExpiration

\* C26: a check_auth, called directly or by request, leaves the access
\* token, the refresh token and the expiration as they were; it changes the
\* flag only from set to unset and only when it raises
\* SharkIqNotAuthedError; when it passes or raises SharkIqAuthExpiringError
\* the credential is unchanged.
C26_CheckAuthFrame ==
    [][op'.name \in {"check_auth"} \cup Requests =>
         /\ access_token' = access_token
         /\ refresh_token' = refresh_token
         /\ auth_expiration' = auth_expiration
         /\ is_authed' # is_authed =>
              (is_authed /\ ~is_authed' /\ op'.result = NotAuthedError)
         /\ op'.result \in {OK, AuthExpiringError, TransportError} => Cred' = Cred]_vars

C26_Witness ==
    /\ op.name = "check_auth" /\ op.result = NotAuthedError
    /\ op.was_authed /\ ~is_authed
    /\ refresh_token = "R1" /\ TokenPresent /\ auth_expiration # NoExpiration

\* C27: a sign_in, async_sign_in or refresh_auth that returns normally on
\* an answer without a refresh token leaves no refresh token stored,
\* whatever was stored before; and a refresh_auth that starts without one
\* sends its first request to Auth0, as sign_in does, and nothing to the
\* refresh endpoint.
C27_OmittedRefreshTokenIsDropped ==
    [][/\ (/\ op'.name \in SignIns \cup {"refresh_auth"}
           /\ op'.result = OK
           /\ op'.body.refresh_token \in {Missing, None}) =>
            refresh_token' = None
       /\ (Falsy(refresh_token) /\ op'.name = "refresh_auth") =>
            (/\ op'.sent[1].to = "auth0"
             /\ \A i \in DOMAIN op'.sent : op'.sent[i].to # "refresh")]_vars

C27_Witness ==
    /\ op.name = "refresh_auth" /\ op.result = OK
    /\ op.sent[1].to = "refresh"
    /\ op.body.refresh_token = Missing
    /\ refresh_token = None /\ is_authed /\ TokenPresent

====
